---- MODULE Spec2Model ----
(***************************************************************************)
(* Model of src/game.js: the lane runner's simulation state, its frame     *)
(* callback (animate), the player actions, the pause / restart handlers    *)
(* and the deferred expiry callbacks (setTimeout).                         *)
(*                                                                         *)
(* The program computes in floating point; the model is fixed point, one   *)
(* resolution per quantity, chosen so that every product the code forms    *)
(* is exact:                                                               *)
(*   time (wall clock and THREE.Clock)    1 = 0.1 s                        *)
(*   speed                                1 = 0.5 units/s                  *)
(*   z, distance, lastObstacleZ           1 = 0.05  (= speed * time)       *)
(*   score                                1 = 0.005 (= distance * 0.1)     *)
(*   x (lanes, camera.position.x)         1 = 0.5                          *)
(*   y (heights, camera.position.y)       1 = 0.01                         *)
(***************************************************************************)
EXTENDS Integers, Sequences, FiniteSets

\* ---------------------------------------------------------------- constants
LANE_WIDTH == 10
LANES == <<-LANE_WIDTH, 0, LANE_WIDTH>>
PLAYER_RUN_HEIGHT == 150
JUMP_HEIGHT == 450
JUMP_DURATION == 5
SLIDE_HEIGHT == 50
COLLISION_SLIDE_HEIGHT == 100
RUN_SPEED_BASE == 30
RUN_SPEED_INCREASE == 1
OBSTACLE_SPAWN_Z == -4000
OBSTACLE_CULL_Z == 200
MIN_DISTANCE == -800
\* Math.floor(elapsed / 10): the length of one speed step, 10 s
SPEED_STEP_TIME == 100
\* setTimeout delays: slide 1000 ms, punch 300 ms, camera shake 100 ms
SLIDE_TIMEOUT == 10
PUNCH_TIMEOUT == 3
SHAKE_TIMEOUT == 1
\* shatterWall: camera.position.y += 0.5, particleCount = 50, ttl = 1.0
SHAKE_OFFSET == 50
PARTICLE_COUNT == 50
DEBRIS_TTL == 10
\* the clearance of the jump / slide exemptions, 0.5
CLEARANCE == 50
\* playerCollisionSize = (LANE_WIDTH * 0.8, PLAYER_RUN_HEIGHT, 1); BoxGeometry depth 1
BOX_WIDTH == 8
BOX_DEPTH == 20

ObstacleTypes == {"jump", "slide", "wall", "breakable"}

\* ------------------------------------------------------------------- bounds
\* wall-clock time that may pass unread by the clock in small steps
MaxPending == 1
\* unit steps of wall-clock time that are followed while a group passes the
\* player and reaches the cull threshold
MaxCullSteps == 12
\* lane changes the player makes while the group passes
MaxCullInputs == 1
\* a long gap between two frames (a stalled or hidden tab), in time units
LongFrame == 125
\* unit steps of wall-clock time that are followed, before and after a long frame
MaxSteps == 5
\* the wall clock is followed up to this time
Horizon == 130
\* calls the user makes (buttons, keys) in one behaviour
MaxInputs == 2
\* obstacles alive at once
MaxObstacles == 2
\* lane rolls one generateObstacles call may need
MaxRolls == 3

\* --------------------------------------------------------------------- state
VARIABLES
    isPaused, isGameOver, currentLane,
    isJumping, jumpStartTime, isSliding, isPunching,
    score, currentSpeed, lastObstacleZ,
    obstacles,      \* sequence of [id, lane, type, z, isBreakable, collided, inScene, passed]
    debrisParticles,\* sequence of [ttl, n, src, oz, dz]
    camX, camY,     \* camera.position.x / .y
    elapsedTime,    \* clock.elapsedTime
    pending,        \* wall-clock time since the clock was last read (now - oldTime)
    frozen,         \* the part of pending that passed while isPaused (observation only)
    now,            \* the wall clock, performance.now()
    timers,         \* pending setTimeout callbacks: set of [kind, left, y, stale];
                    \* stale: resetGame has run since it was scheduled (observation only)
    loopRunning,    \* a requestAnimationFrame callback is pending (gameLoopId live)
    restartOnclick, \* restartButton.onclick: "none", "resume" or "reset"
    finalScore,     \* the number shown in #final-score, -1 when it shows none
    created,        \* createObstacle calls so far; numbers the obstacles
    inputs,         \* calls the user has made so far
    ev              \* the last handler that ran and what it did (observation only)

vars == <<isPaused, isGameOver, currentLane, isJumping, jumpStartTime, isSliding,
          isPunching, score, currentSpeed,
          lastObstacleZ, obstacles, debrisParticles, camX, camY, elapsedTime,
          pending, frozen, now, timers, loopRunning, restartOnclick, finalScore,
          created, inputs, ev>>

\* ------------------------------------------------------------------- helpers
Max(a, b) == IF a >= b THEN a ELSE b
Min(a, b) == IF a <= b THEN a ELSE b
Abs(a) == IF a >= 0 THEN a ELSE -a
\* a / b rounded away from zero to the resolution: the fixed-point value of a
\* real quotient, chosen so that a repeated approach reaches its target
RoundAway(a, b) == IF a >= 0 THEN (a + b - 1) \div b ELSE -((-a + b - 1) \div b)

\* What a handler other than animate leaves in ev
NoEv(name) ==
    [op |-> name, ran |-> FALSE, hits |-> <<>>, spawned |-> <<>>,
     gate |-> 0, calls |-> 0, from |-> 1, dir |-> 0,
     delta |-> 0, frozen |-> 0, stale |-> FALSE, flag |-> FALSE]

\* THREE.Clock: getDelta() returns the time since the clock was last read and
\* adds it to elapsedTime; getElapsedTime() calls getDelta() first.  A read is
\* therefore elapsedTime + pending, and leaves pending = 0.

\* ------------------------------------------------------------- obstacles
\* createObstacle: the height of the mesh centre and of its box, by type
ObstacleY(type) ==
    CASE type = "jump" -> 50
      [] type = "slide" -> PLAYER_RUN_HEIGHT + 50
      [] OTHER -> 125

ObstacleH(type) ==
    CASE type = "jump" -> 100
      [] type = "slide" -> 100
      [] OTHER -> 250

BreakableOf(type) == type = "breakable"

createObstacle(id, lane, type) ==
    [id |-> id, lane |-> lane, type |-> type, z |-> OBSTACLE_SPAWN_Z,
     isBreakable |-> BreakableOf(type), collided |-> FALSE, inScene |-> TRUE,
     passed |-> FALSE]

\* A loop that takes every roll, repeated lanes too
IncludesNothing(acc, lane) == FALSE

\* blockedLanes.includes(lane)
Includes(acc, lane) == \E i \in 1..Len(acc) : acc[i] = lane

\* The while loop of generateObstacles: the values blockedLanes can have when
\* the loop ends within the given number of rolls.  A roll is a value of
\* Math.floor(Math.random() * 3); it is pushed unless it is included.
RECURSIVE blockedLanes(_, _, _)
blockedLanes(acc, numObstacles, rolls) ==
    IF ~(Len(acc) < numObstacles) THEN {acc}
    ELSE IF rolls = 0 THEN {}
    ELSE UNION {blockedLanes(IF ~Includes(acc, lane) THEN Append(acc, lane) ELSE acc,
                             numObstacles, rolls - 1) : lane \in 0..2}

\* blockedLanes.forEach(lane => createObstacle(lane, type))
SpawnGroup(firstId, lanes, type) ==
    [i \in 1..Len(lanes) |-> createObstacle(firstId + i - 1, lanes[i], type)]

\* The gate of generateObstacles: it returns early when this is false
GateOpen(cursor) == ~(cursor > MIN_DISTANCE)

\* ------------------------------------------------------- the program state
\* The state as one record, so that a handler that calls another (resetGame
\* calls animate) is one step.
Cur ==
    [isPaused |-> isPaused, isGameOver |-> isGameOver, currentLane |-> currentLane,
     isJumping |-> isJumping, jumpStartTime |-> jumpStartTime,
     isSliding |-> isSliding, isPunching |-> isPunching,
     score |-> score, currentSpeed |-> currentSpeed, lastObstacleZ |-> lastObstacleZ,
     obstacles |-> obstacles, debrisParticles |-> debrisParticles,
     camX |-> camX, camY |-> camY, elapsedTime |-> elapsedTime, pending |-> pending,
     timers |-> timers, loopRunning |-> loopRunning,
     restartOnclick |-> restartOnclick, finalScore |-> finalScore,
     created |-> created, now |-> now, inputs |-> inputs, ev |-> ev,
     frozen |-> frozen]

Becomes(r) ==
    /\ isPaused' = r.isPaused
    /\ isGameOver' = r.isGameOver
    /\ currentLane' = r.currentLane
    /\ isJumping' = r.isJumping
    /\ jumpStartTime' = r.jumpStartTime
    /\ isSliding' = r.isSliding
    /\ isPunching' = r.isPunching
    /\ score' = r.score
    /\ currentSpeed' = r.currentSpeed
    /\ lastObstacleZ' = r.lastObstacleZ
    /\ obstacles' = r.obstacles
    /\ debrisParticles' = r.debrisParticles
    /\ camX' = r.camX
    /\ camY' = r.camY
    /\ elapsedTime' = r.elapsedTime
    /\ pending' = r.pending
    /\ timers' = r.timers
    /\ loopRunning' = r.loopRunning
    /\ restartOnclick' = r.restartOnclick
    /\ finalScore' = r.finalScore
    /\ created' = r.created
    /\ now' = r.now
    /\ inputs' = r.inputs
    /\ ev' = r.ev
    /\ frozen' = r.frozen

\* The state is r
Is(r) ==
    /\ isPaused = r.isPaused
    /\ isGameOver = r.isGameOver
    /\ currentLane = r.currentLane
    /\ isJumping = r.isJumping
    /\ jumpStartTime = r.jumpStartTime
    /\ isSliding = r.isSliding
    /\ isPunching = r.isPunching
    /\ score = r.score
    /\ currentSpeed = r.currentSpeed
    /\ lastObstacleZ = r.lastObstacleZ
    /\ obstacles = r.obstacles
    /\ debrisParticles = r.debrisParticles
    /\ camX = r.camX
    /\ camY = r.camY
    /\ elapsedTime = r.elapsedTime
    /\ pending = r.pending
    /\ timers = r.timers
    /\ loopRunning = r.loopRunning
    /\ restartOnclick = r.restartOnclick
    /\ finalScore = r.finalScore
    /\ created = r.created
    /\ now = r.now
    /\ inputs = r.inputs
    /\ ev = r.ev
    /\ frozen = r.frozen

\* ------------------------------------------------------------- collisions
\* checkCollisions: the player's box is centred on (camera x, playerY, 0);
\* Box3.intersectsBox counts touching boxes as intersecting.
PlayerY(sliding) == IF sliding THEN SLIDE_HEIGHT ELSE PLAYER_RUN_HEIGHT
PlayerH(sliding) == IF sliding THEN COLLISION_SLIDE_HEIGHT ELSE PLAYER_RUN_HEIGHT

Intersects(x, sliding, o) ==
    /\ 2 * Abs(x - LANES[o.lane + 1]) <= BOX_WIDTH + BOX_WIDTH
    /\ 2 * Abs(PlayerY(sliding) - ObstacleY(o.type)) <= PlayerH(sliding) + ObstacleH(o.type)
    /\ 2 * Abs(o.z) <= BOX_DEPTH + BOX_DEPTH

\* An exemption that does not ask whether the player is jumping
JumpExemptByHeight(o, jumping, y) ==
    o.type = "jump" /\ y > ObstacleY(o.type) + CLEARANCE

\* The exemption of a 'jump' obstacle / of a 'slide' obstacle
JumpExempt(o, jumping, y) ==
    o.type = "jump" /\ jumping /\ y > ObstacleY(o.type) + CLEARANCE

SlideExempt(o, sliding, y) ==
    o.type = "slide" /\ sliding /\ y < ObstacleY(o.type) - CLEARANCE

\* The branch checkCollisions takes for an intersecting obstacle
Outcome(o, p, y) ==
    IF o.isBreakable /\ p.punching THEN "shatter"
    ELSE IF JumpExempt(o, p.jumping, y) THEN "pass"
    ELSE IF SlideExempt(o, p.sliding, y) THEN "pass"
    ELSE "end"

\* Math.floor(score) of the #final-score text
FloorScore(sc) == sc \div 200

\* gameOver(), on the running state c of a checkCollisions pass
gameOver(c) ==
    [c EXCEPT !.over = TRUE, !.calls = @ + 1, !.loop = FALSE,
              !.final = FloorScore(c.score)]

\* A shatterWall without scene.remove(wall)
ShatteredInScene(o) == [o EXCEPT !.collided = TRUE]

\* What shatterWall leaves of the wall in the obstacles array
Shattered(o) == [o EXCEPT !.inScene = FALSE, !.collided = TRUE]

\* shatterWall(wall), wall = c.obs[i]
shatterWall(c, i) ==
    LET o == c.obs[i] IN
    [c EXCEPT !.obs[i] = Shattered(o),
              !.timers = @ \cup {[kind |-> "shake", left |-> SHAKE_TIMEOUT, y |-> c.camY,
                                       stale |-> FALSE]},
              !.camY = @ + SHAKE_OFFSET,
              !.debris = Append(@, [ttl |-> DEBRIS_TTL, n |-> PARTICLE_COUNT,
                                    src |-> o.id, oz |-> o.z, dz |-> 0])]

\* A forEach body without the early return on collided
NeverSkipped(o) == FALSE

\* Pass-through branches that fall through to collided = true
PassAlwaysMarks == TRUE

\* if (obstacle.userData.collided) return;
AlreadyCollided(o) == o.collided

\* Whether a pass-through branch falls through to the line that sets collided
PassMarksCollided == FALSE

\* The body of the forEach of checkCollisions for obstacle i
CollideOne(c, p, i) ==
    LET o == c.obs[i]
        res == Outcome(o, p, c.camY)
        hit == [id |-> o.id, type |-> o.type, res |-> res, y |-> c.camY,
                jumping |-> p.jumping, before |-> o.passed]
        logged == [c EXCEPT !.hits = Append(@, hit)]
    IN  IF AlreadyCollided(o) \/ ~Intersects(p.x, p.sliding, o) THEN c
        ELSE IF res = "shatter"
             THEN LET d == shatterWall(logged, i) IN [d EXCEPT !.obs[i].collided = TRUE]
        ELSE IF res = "pass"
             THEN [logged EXCEPT !.obs[i].passed = TRUE,
                                 !.obs[i].collided = PassMarksCollided]
        ELSE LET d == gameOver(logged) IN [d EXCEPT !.obs[i].collided = TRUE]

RECURSIVE CollideFrom(_, _, _)
CollideFrom(c, p, i) ==
    IF i > Len(c.obs) THEN c ELSE CollideFrom(CollideOne(c, p, i), p, i + 1)

checkCollisions(c, p) == CollideFrom(c, p, 1)

\* ---------------------------------------------------------------- animate
\* A speed that rounds elapsed / 10 to the nearest step
SpeedAtRounded(elapsed) ==
    RUN_SPEED_BASE + ((elapsed + SPEED_STEP_TIME \div 2) \div SPEED_STEP_TIME) * RUN_SPEED_INCREASE

\* currentSpeed = RUN_SPEED_BASE + Math.floor(elapsed / 10) * RUN_SPEED_INCREASE
SpeedAt(elapsed) == RUN_SPEED_BASE + (elapsed \div SPEED_STEP_TIME) * RUN_SPEED_INCREASE

\* jumpY = JUMP_HEIGHT * 4 * (progress - progress^2), progress = t / JUMP_DURATION
JumpY(t) == (JUMP_HEIGHT * 4 * (t * JUMP_DURATION - t * t)) \div (JUMP_DURATION * JUMP_DURATION)

\* camera.position.x += (targetX - camera.position.x) * 0.1
SmoothX(x, lane) == x + RoundAway(LANES[lane + 1] - x, 10)

Transport(seq, distance) == [i \in 1..Len(seq) |-> [seq[i] EXCEPT !.z = @ + distance]]

\* A cull loop that removes nothing
KeepsAll(o) == TRUE

\* The obstacles the cull loop keeps: not (obstacles[i].position.z > OBSTACLE_CULL_Z)
NotCulled(o) == ~(o.z > OBSTACLE_CULL_Z)

DebrisAlive(b) == ~(b.ttl <= 0)

\* p.position.z += distance for every batch, then updateDebris(delta)
updateDebris(seq, distance, delta) ==
    SelectSeq([i \in 1..Len(seq) |->
                  [seq[i] EXCEPT !.dz = @ + distance, !.ttl = @ - delta]],
              DebrisAlive)

\* A frame that returns early on game over only
SkipsOnGameOverOnly(s) == s.isGameOver

\* A jump that lasts through progress = 1
InJumpInclusive(t) == t <= JUMP_DURATION

\* if (progress < 1), progress = timeInJump / JUMP_DURATION
InJump(t) == t < JUMP_DURATION

\* A score that is assigned the tick's gain
SetScore(sc, distance) == distance

\* score += distance * 0.1
AddScore(sc, distance) == sc + distance

\* if (isPaused || isGameOver) return;
AnimateSkips(s) == s.isPaused \/ s.isGameOver

\* generateObstacles(): draw, when the gate is open, is the outcome of the
\* random draws: blockedLanes as the while loop leaves it, and the type
generateObstacles(s, cursor, obs, draw) ==
    IF GateOpen(cursor)
    THEN LET group == SpawnGroup(s.created + 1, draw.lanes, draw.type) IN
         [obs |-> obs \o group, cursor |-> OBSTACLE_SPAWN_Z, group |-> group]
    ELSE [obs |-> obs, cursor |-> cursor, group |-> <<>>]

\* One call of animate(): gameLoopId = requestAnimationFrame(animate), then
\* the frame.  The clock is read once (getDelta, then getElapsedTime).
animate(s, draw) ==
    IF AnimateSkips(s)
    THEN [s EXCEPT !.loopRunning = TRUE, !.ev = NoEv("animate")]
    ELSE
    LET delta == s.pending
        elapsed == s.elapsedTime + s.pending
        speed == SpeedAt(elapsed)
        t == elapsed - s.jumpStartTime
        jumping == s.isJumping /\ InJump(t)
        y1 == IF s.isJumping
              THEN (IF jumping THEN PLAYER_RUN_HEIGHT + JumpY(t) ELSE PLAYER_RUN_HEIGHT)
              ELSE s.camY
        y2 == IF s.isSliding THEN SLIDE_HEIGHT
              ELSE IF ~jumping THEN PLAYER_RUN_HEIGHT ELSE y1
        x1 == SmoothX(s.camX, s.currentLane)
        distance == speed * delta
        cursor == s.lastObstacleZ + distance
        kept == SelectSeq(Transport(s.obstacles, distance), NotCulled)
        deb == updateDebris(s.debrisParticles, distance, delta)
        c == checkCollisions(
                 [obs |-> kept, debris |-> deb, camY |-> y2, over |-> FALSE,
                  calls |-> 0, hits |-> <<>>, timers |-> s.timers, loop |-> TRUE,
                  final |-> s.finalScore, score |-> s.score],
                 [x |-> x1, jumping |-> jumping, sliding |-> s.isSliding,
                  punching |-> s.isPunching])
        g == generateObstacles(s, cursor, c.obs, draw)
    IN  [s EXCEPT !.elapsedTime = elapsed, !.pending = 0, !.frozen = 0,
                  !.currentSpeed = speed, !.isJumping = jumping,
                  !.camX = x1, !.camY = c.camY,
                  !.obstacles = g.obs, !.lastObstacleZ = g.cursor,
                  !.created = @ + Len(g.group),
                  !.debrisParticles = c.debris, !.timers = c.timers,
                  !.isGameOver = c.over, !.loopRunning = c.loop,
                  !.finalScore = c.final,
                  !.score = AddScore(@, distance),
                  !.ev = [NoEv("animate") EXCEPT !.ran = TRUE, !.hits = c.hits,
                              !.spawned = g.group, !.gate = cursor,
                              !.calls = c.calls, !.delta = delta,
                              !.frozen = s.frozen]]

\* --------------------------------------------------------- player actions
\* A moveLane without the clamp
Unclamped(l) == l

\* Math.max(0, Math.min(2, currentLane + direction))
ClampLane(l) == Max(0, Min(2, l))

moveLane(s, direction) ==
    LET seen == [NoEv("moveLane") EXCEPT !.from = s.currentLane, !.dir = direction]
    IN  IF s.isJumping \/ s.isGameOver THEN [s EXCEPT !.ev = seen]
        ELSE [s EXCEPT !.currentLane = ClampLane(s.currentLane + direction),
                       !.ev = seen]

\* The start time is written by slide() and punch() too (slideStartTime,
\* punchStartTime), and read nowhere: only jumpStartTime is state.
\* clock.getElapsedTime() in a handler reads the clock: the time since the last
\* read is added to elapsedTime and is no longer part of the next frame's delta
\* A jump() that does not ask whether the player is sliding
jumpWhileSliding(s) ==
    IF s.isJumping \/ s.isGameOver THEN [s EXCEPT !.ev = NoEv("jump")]
    ELSE [s EXCEPT !.isJumping = TRUE,
                   !.jumpStartTime = s.elapsedTime + s.pending,
                   !.elapsedTime = s.elapsedTime + s.pending, !.pending = 0,
                   !.frozen = 0,
                   !.ev = NoEv("jump")]

\* A punch() that does not ask whether a punch is in progress
punchAgain(s) ==
    IF s.isGameOver THEN [s EXCEPT !.ev = NoEv("punch")]
    ELSE [s EXCEPT !.isPunching = TRUE,
                   !.elapsedTime = s.elapsedTime + s.pending, !.pending = 0,
                   !.frozen = 0,
                   !.timers = @ \cup {[kind |-> "punch", left |-> PUNCH_TIMEOUT, y |-> 0,
                                       stale |-> FALSE]},
                   !.ev = NoEv("punch")]

jump(s) ==
    IF s.isJumping \/ s.isSliding \/ s.isGameOver THEN [s EXCEPT !.ev = NoEv("jump")]
    ELSE [s EXCEPT !.isJumping = TRUE,
                   !.jumpStartTime = s.elapsedTime + s.pending,
                   !.elapsedTime = s.elapsedTime + s.pending, !.pending = 0,
                   !.frozen = 0,
                   !.ev = NoEv("jump")]

slide(s) ==
    IF s.isJumping \/ s.isSliding \/ s.isGameOver THEN [s EXCEPT !.ev = NoEv("slide")]
    ELSE [s EXCEPT !.isSliding = TRUE,
                   !.elapsedTime = s.elapsedTime + s.pending, !.pending = 0,
                   !.frozen = 0,
                   !.timers = @ \cup {[kind |-> "slide", left |-> SLIDE_TIMEOUT, y |-> 0,
                                       stale |-> FALSE]},
                   !.ev = NoEv("slide")]

punch(s) ==
    IF s.isPunching \/ s.isGameOver THEN [s EXCEPT !.ev = NoEv("punch")]
    ELSE [s EXCEPT !.isPunching = TRUE,
                   !.elapsedTime = s.elapsedTime + s.pending, !.pending = 0,
                   !.frozen = 0,
                   !.timers = @ \cup {[kind |-> "punch", left |-> PUNCH_TIMEOUT, y |-> 0,
                                       stale |-> FALSE]},
                   !.ev = NoEv("punch")]

\* ------------------------------------------------------- reset and pause
\* A resetGame that leaves the obstacles array as it is
resetKeepsObstacles(s, draw) ==
    LET r == animate([s EXCEPT !.isGameOver = FALSE, !.isPaused = FALSE,
                               !.currentLane = 1, !.score = 0,
                               !.currentSpeed = RUN_SPEED_BASE, !.lastObstacleZ = 0,
                               !.camX = LANES[2], !.camY = PLAYER_RUN_HEIGHT,
                               !.debrisParticles = <<>>,
                               !.elapsedTime = 0, !.pending = 0, !.frozen = 0,
                               !.timers = {[tm EXCEPT !.stale = TRUE] : tm \in @}],
                     draw)
    IN  [r EXCEPT !.ev.op = "resetGame"]

\* resetGame(): the fields, clock.start(), then startGameLoop() runs a frame
resetGame(s, draw) ==
    LET r == animate([s EXCEPT !.isGameOver = FALSE, !.isPaused = FALSE,
                               !.currentLane = 1, !.score = 0,
                               !.currentSpeed = RUN_SPEED_BASE, !.lastObstacleZ = 0,
                               !.camX = LANES[2], !.camY = PLAYER_RUN_HEIGHT,
                               !.obstacles = <<>>, !.debrisParticles = <<>>,
                               !.elapsedTime = 0, !.pending = 0, !.frozen = 0,
                               !.timers = {[tm EXCEPT !.stale = TRUE] : tm \in @}],
                     draw)
    IN  [r EXCEPT !.ev.op = "resetGame"]

\* The click handler of #pause-button (the Escape key clicks the button)
pauseClick(s) ==
    IF ~s.isPaused
    THEN [s EXCEPT !.isPaused = TRUE, !.finalScore = -1,
                   !.restartOnclick = "resume", !.ev = NoEv("pause")]
    ELSE [s EXCEPT !.isPaused = FALSE, !.restartOnclick = "reset",
                   !.ev = NoEv("pause")]

\* restartButton.onclick while it reads RESUME
resumeHandler(s) == [s EXCEPT !.isPaused = FALSE, !.restartOnclick = "reset"]

\* A click on #restart-button: the listener added with addEventListener
\* (resetGame) runs first, then the onclick handler, if one is set
restartClick(s, draw) ==
    LET r == resetGame(s, draw)
        q == CASE r.restartOnclick = "resume" -> resumeHandler(r)
               [] r.restartOnclick = "reset" -> resetGame(r, draw)
               [] OTHER -> r
    IN  [q EXCEPT !.ev.op = "restart"]

\* --------------------------------------------------------------- timers
\* The callback of a timer; ev notes whether it was stale and the flag it found
fire(s, tm) ==
    LET seen(name, flag) == [NoEv(name) EXCEPT !.stale = tm.stale, !.flag = flag]
        rest == [s EXCEPT !.timers = @ \ {tm}]
    IN  CASE tm.kind = "slide" ->
               [rest EXCEPT !.isSliding = FALSE, !.ev = seen("slideExpiry", s.isSliding)]
          [] tm.kind = "punch" ->
               [rest EXCEPT !.isPunching = FALSE, !.ev = seen("punchExpiry", s.isPunching)]
          [] OTHER -> [rest EXCEPT !.camY = tm.y, !.ev = seen("shakeEnd", FALSE)]

\* ---------------------------------------------------------------- actions
\* The outcomes of the random draws of one generateObstacles call:
\* numObstacles is 1 or 2, the lanes follow from the rolls, the type is any
Draws ==
    {[lanes |-> l, type |-> t] :
        l \in blockedLanes(<<>>, 1, MaxRolls) \cup blockedLanes(<<>>, 2, MaxRolls),
        t \in ObstacleTypes}

NoDraw == [lanes |-> <<1>>, type |-> "wall"]

\* The draws a frame run on s can consume: none when its gate stays shut, and
\* no more obstacles than are followed
DrawsOf(s) ==
    IF ~AnimateSkips(s)
       /\ GateOpen(s.lastObstacleZ + SpeedAt(s.elapsedTime + s.pending) * s.pending)
    THEN {d \in Draws : Len(s.obstacles) + Len(d.lanes) <= MaxObstacles}
    ELSE {NoDraw}

\* Wall-clock time passes: d time units
passes(s, d) ==
    [s EXCEPT !.pending = @ + d, !.now = @ + d,
              !.frozen = IF s.isPaused THEN @ + d ELSE @,
              !.timers = {[tm EXCEPT !.left = @ - d] : tm \in s.timers},
              !.ev = NoEv("time")]

\* A call made by the user
Input(r) == inputs < MaxInputs /\ Becomes([r EXCEPT !.inputs = @ + 1])

\* The requestAnimationFrame callback
Animate ==
    /\ loopRunning
    /\ \E draw \in DrawsOf(Cur) : Becomes(animate(Cur, draw))

Jump == Input(jump(Cur))

Slide == Input(slide(Cur))

Punch == Input(punch(Cur))

MoveLane == \E direction \in {-1, 1} : Input(moveLane(Cur, direction))

PauseClick == Input(pauseClick(Cur))

ResetGame == Input(resetGame(Cur, NoDraw))

RestartClick == Input(restartClick(Cur, NoDraw))

\* A setTimeout callback that is due
Fire == \E tm \in timers : tm.left = 0 /\ Becomes(fire(Cur, tm))

\* No timer is overdue, and the time not yet read stays within the bound
TimePasses(d) ==
    /\ \A tm \in timers : tm.left >= d
    /\ pending = 0 \/ pending + d <= MaxPending
    /\ Becomes(passes(Cur, d))

Tick == (now % LongFrame) < MaxSteps /\ TimePasses(1)

Stall == now + LongFrame <= Horizon /\ TimePasses(LongFrame)

\* Nothing happens until the next timer is due
Sleep ==
    \E tm \in timers :
        tm.left > MaxPending /\ now + tm.left <= Horizon /\ TimePasses(tm.left)

\* The state after construction and initGame()
Start ==
    [isPaused |-> FALSE, isGameOver |-> FALSE, currentLane |-> 1,
     isJumping |-> FALSE, jumpStartTime |-> 0, isSliding |-> FALSE,
     isPunching |-> FALSE, score |-> 0, currentSpeed |-> RUN_SPEED_BASE,
     lastObstacleZ |-> 0, obstacles |-> <<>>, debrisParticles |-> <<>>,
     camX |-> LANES[2], camY |-> PLAYER_RUN_HEIGHT, elapsedTime |-> 0,
     pending |-> 0, timers |-> {}, loopRunning |-> TRUE,
     restartOnclick |-> "none", finalScore |-> -1, created |-> 0, now |-> 0,
     inputs |-> 0, ev |-> NoEv("init"), frozen |-> 0]

Init == Is(Start)

Next ==
    \/ Animate
    \/ Jump
    \/ Slide
    \/ Punch
    \/ MoveLane
    \/ PauseClick
    \/ ResetGame
    \/ RestartClick
    \/ Fire
    \/ Tick
    \/ Stall
    \/ Sleep

\* The program as it starts
Spec == Init /\ [][Next]_vars

\* -------------------------------------------------------- spawner scenario
\* The spawn cursor of the start state never opens the gate of
\* generateObstacles (see C8).  The spawner and the collisions are therefore
\* examined from the state in which the cursor stands on the spawn plane, the
\* value generateObstacles itself leaves in it.
GateStart == [Start EXCEPT !.lastObstacleZ = OBSTACLE_SPAWN_Z]

InitGate == Is(GateStart)

NextGate ==
    \/ Animate
    \/ Tick
    \/ Stall

\* Frames and time only, from the open gate
SpecGate == InitGate /\ [][NextGate]_vars

\* ------------------------------------------------------ collision scenario
\* A group has been spawned (any draw) and a long frame has carried it to the
\* player: the state the code reaches from GateStart by a frame, a long gap
\* and a second frame.
Near(draw) == animate(passes(animate(GateStart, draw), LongFrame), NoDraw)

\* The groups followed to the player: one obstacle in the player's lane, or two
\* in neighbouring lanes, of every type
NearDraws == {[lanes |-> l, type |-> t] : l \in {<<1>>, <<0, 1>>}, t \in ObstacleTypes}

InitNear == \E draw \in NearDraws : Is(Near(draw))

NextNear ==
    \/ Animate
    \/ Jump
    \/ Slide
    \/ Punch
    \/ MoveLane
    \/ PauseClick
    \/ ResetGame
    \/ Fire
    \/ Tick

\* The player's actions against an approaching group
SpecNear == InitNear /\ [][NextNear]_vars

\* ------------------------------------------------------------ cull scenario
\* The group of the collision scenario followed past the player to the cull
\* threshold, in frames of one time unit; the player may change lane to let
\* the group pass.
TickCull == now < LongFrame + MaxCullSteps /\ TimePasses(1)

\* A lane change made to let the group pass
SideStep == inputs < MaxCullInputs /\ MoveLane

NextCull ==
    \/ Animate
    \/ TickCull
    \/ SideStep

\* A frame is requested and running it changes the state
FrameDue == loopRunning /\ \E draw \in DrawsOf(Cur) : animate(Cur, draw) # Cur

\* WF_vars(Animate) with ENABLED <<Animate>>_vars written out as FrameDue:
\* requestAnimationFrame runs every requested frame
FrameFair == []<>(~FrameDue) \/ []<><<Animate>>_vars

\* The scenario with the browser's scheduling: requested frames run, and
\* wall-clock time passes
SpecCull ==
    /\ InitNear
    /\ [][NextCull]_vars
    /\ FrameFair
    /\ WF_vars(TickCull)

\* ------------------------------------------------------------ late scenario
\* The run some time after its start: a first frame that comes late (the page
\* was loading or hidden), then short frames.  The late frames end just before
\* the first speed step (9.9 s) and before 23.4 s.
LateTimes == {0, SPEED_STEP_TIME - 1, 2 * SPEED_STEP_TIME + 34 - MaxSteps}

Late(e) == animate(passes(Start, e), NoDraw)

InitLate == \E e \in LateTimes : Is(Late(e))

TickLate == (\E e \in LateTimes : now - e \in 0..(MaxSteps - 1)) /\ TimePasses(1)

NextLate ==
    \/ Animate
    \/ TickLate
    \/ PauseClick
    \/ ResetGame

\* Frames around the speed steps
SpecLate == InitLate /\ [][NextLate]_vars

\* ---------------------------------------------------------------- claims
\* Obstacle i of the array is the obstacle numbered id
Listed(id) == \E j \in 1..Len(obstacles) : obstacles[j].id = id

\* C1: a tick (animate call) that starts while isPaused or isGameOver leaves the
\* obstacle list, the debris list, score, currentSpeed and lastObstacleZ as
\* they were, however many such ticks follow one another.
PausedTickChangesNothing ==
    [][(ev'.op = "animate" /\ (isPaused \/ isGameOver))
          => UNCHANGED <<obstacles, debrisParticles, score, currentSpeed, lastObstacleZ>>]_vars

\* A tick has just run while paused, with wall-clock time waiting to be read and
\* an obstacle on the track
PausedTickSeen ==
    /\ ev.op = "animate" /\ ~ev.ran
    /\ isPaused /\ pending > 0 /\ obstacles # <<>>

\* C2: when checkCollisions evaluates a not-yet-collided intersecting 'jump'
\* obstacle, the run ends on that tick if and only if the exemption does not
\* hold: exempt (jumping and above obstacleY + 0.5) it is passed, otherwise
\* gameOver is called.
JumpObstacleEndsRunIffNotExempt ==
    \A i \in 1..Len(ev.hits) :
        LET h == ev.hits[i]
            exempt == h.jumping /\ h.y > ObstacleY("jump") + CLEARANCE
        IN  h.type = "jump" =>
               /\ h.res = "end" <=> ~exempt
               /\ h.res = "pass" <=> exempt
               /\ h.res = "end" => isGameOver /\ ev.calls >= 1
               /\ (\A k \in 1..Len(ev.hits) : ev.hits[k].res # "end") => ~isGameOver

\* A jumping player has just passed through a 'jump' obstacle
JumpObstaclePassed ==
    /\ ev.op = "animate" /\ ~isGameOver
    /\ \E i \in 1..Len(ev.hits) :
          ev.hits[i].type = "jump" /\ ev.hits[i].res = "pass" /\ ev.hits[i].jumping

CollidedIsLatch ==
    [][\A i \in 1..Len(obstacles) :
          obstacles[i].collided =>
             /\ \A j \in 1..Len(obstacles') :
                   obstacles'[j].id = obstacles[i].id => obstacles'[j].collided
             /\ \A k \in 1..Len(ev'.hits) : ev'.hits[k].id # obstacles[i].id
             /\ Cardinality({k \in 1..Len(debrisParticles') :
                                debrisParticles'[k].src = obstacles[i].id})
                   <= Cardinality({k \in 1..Len(debrisParticles) :
                                      debrisParticles[k].src = obstacles[i].id})]_vars

\* A tick has just run over a collided obstacle that still intersects the
\* player, and evaluated nothing
CollidedStillIntersecting ==
    /\ ev.op = "animate" /\ ev.ran /\ ev.hits = <<>>
    /\ \E i \in 1..Len(obstacles) :
          obstacles[i].collided /\ Intersects(camX, isSliding, obstacles[i])

SpawnsOnceCursorAdvanced == lastObstacleZ >= -MIN_DISTANCE => created > 0

\* C9: every spawn event (a generateObstacles call that passes its gate) adds
\* 1 or 2 obstacles, in pairwise distinct lanes of {0,1,2}, all of one type of
\* {jump, slide, wall, breakable}, at the spawn z, with collided false and
\* isBreakable true exactly for type 'breakable'.
SpawnGroupWellFormed ==
    (ev.op = "animate" /\ ev.ran /\ ~(ev.gate > MIN_DISTANCE)) =>
       LET g == ev.spawned IN
       /\ Len(g) \in {1, 2}
       /\ \A i, j \in 1..Len(g) : i # j => g[i].lane # g[j].lane
       /\ \A i \in 1..Len(g) :
             /\ g[i].lane \in {0, 1, 2}
             /\ g[i].type \in {"jump", "slide", "wall", "breakable"}
             /\ g[i].type = g[1].type
             /\ g[i].z = OBSTACLE_SPAWN_Z
             /\ ~g[i].collided
             /\ g[i].isBreakable <=> g[i].type = "breakable"
       /\ Len(obstacles) >= Len(g)
       /\ SubSeq(obstacles, Len(obstacles) - Len(g) + 1, Len(obstacles)) = g

\* A group of two has just been spawned
PairSpawned ==
    /\ ev.op = "animate" /\ Len(ev.spawned) = 2
    /\ ev.spawned[1].lane # ev.spawned[2].lane

\* C10: currentLane is in {0,1,2} in every reachable state; moveLane clamps
\* lane + direction into [0,2] when the player is neither jumping nor game
\* over, and leaves the lane as it was otherwise.
LaneInRange ==
    /\ currentLane \in {0, 1, 2}
    /\ ev.op = "moveLane" =>
          currentLane = IF isJumping \/ isGameOver THEN ev.from
                        ELSE IF ev.from + ev.dir < 0 THEN 0
                        ELSE IF ev.from + ev.dir > 2 THEN 2
                        ELSE ev.from + ev.dir

\* moveLane(+1) has just been called in the rightmost lane and clamped
MoveClamped ==
    /\ ev.op = "moveLane" /\ ~isJumping /\ ~isGameOver
    /\ ev.from = 2 /\ ev.dir = 1 /\ currentLane = 2

\* C11: isJumping and isSliding are never both true, under any interleaving of
\* jump, slide and punch requests, ticks, expiry timers, pause toggles and
\* resets; isPunching may be true together with either.
NeverJumpingAndSliding == ~(isJumping /\ isSliding)

\* The player slides and punches at once
SlidingWhilePunching == isSliding /\ isPunching /\ ~isJumping

\* C12: an action request made while it is not allowed is a complete no-op:
\* jump() or slide() while jumping, sliding or game over, and punch() while
\* punching or game over, change no action flag and no start time, schedule no
\* timer and do not read the clock; nothing else of the game changes either.
IgnoredRequestIsNoOp ==
    [][(\/ ev'.op \in {"jump", "slide"} /\ (isJumping \/ isSliding \/ isGameOver)
        \/ ev'.op = "punch" /\ (isPunching \/ isGameOver))
          => UNCHANGED <<isJumping, isSliding, isPunching, jumpStartTime, timers,
                         elapsedTime, pending, isPaused, isGameOver, currentLane,
                         score, currentSpeed, lastObstacleZ, obstacles,
                         debrisParticles, camX, camY, loopRunning, finalScore>>]_vars

\* punch() has just been called during a punch, with wall-clock time unread:
\* the request was ignored (a punch that starts reads the clock)
IgnoredPunchSeen ==
    /\ ev.op = "punch" /\ isPunching /\ pending > 0
    /\ \E tm \in timers : tm.kind = "punch" /\ tm.left < PUNCH_TIMEOUT

\* C13: a slide or punch expiry callback that was scheduled in one run and
\* fires after resetGame has started a new run is a no-op: it changes no action
\* flag (isSliding, isPunching) of the new run.
StaleExpiryIsNoOp ==
    /\ (ev.op = "slideExpiry" /\ ev.stale) => isSliding = ev.flag
    /\ (ev.op = "punchExpiry" /\ ev.stale) => isPunching = ev.flag

\* C14: pausing freezes the clock: time that passes while isPaused is true is
\* counted neither in elapsed time nor in the delta of the first tick after
\* resuming, so the delta of a tick holds no time that passed during a pause.
PauseFreezesClock == ev.ran => ev.frozen = 0

\* C15: resetGame, called from any state (game over, paused or running),
\* leaves a fresh running state in one step: isGameOver and isPaused false, the
\* obstacle list and the debris list empty, score 0, speed the base speed,
\* lane 1 and the spawn cursor at its initial value, the frame loop running.
ResetGameIsFresh ==
    ev.op = "resetGame" =>
       /\ ~isGameOver /\ ~isPaused
       /\ obstacles = <<>> /\ debrisParticles = <<>>
       /\ score = 0 /\ currentSpeed = RUN_SPEED_BASE
       /\ currentLane = 1 /\ lastObstacleZ = 0
       /\ loopRunning

\* resetGame has just been called on a run that had ended at an obstacle
ResetAfterGameOver == ev.op = "resetGame" /\ finalScore >= 0 /\ created > 0

SpeedStaircase ==
    [][/\ ev'.ran =>
             \E n \in 0..(elapsedTime' \div SPEED_STEP_TIME) :
                /\ n * SPEED_STEP_TIME <= elapsedTime'
                /\ elapsedTime' < (n + 1) * SPEED_STEP_TIME
                /\ currentSpeed' = RUN_SPEED_BASE + n * RUN_SPEED_INCREASE
       /\ currentSpeed' < currentSpeed =>
             ev'.op \in {"resetGame", "restart"} /\ currentSpeed' = RUN_SPEED_BASE]_vars

\* A tick has just read exactly 10 s and taken the first speed step
FirstSpeedStep ==
    /\ ev.op = "animate" /\ ev.ran /\ ev.delta > 0
    /\ elapsedTime = SPEED_STEP_TIME
    /\ currentSpeed = RUN_SPEED_BASE + RUN_SPEED_INCREASE

\* C18: within a run score never decreases: every tick that runs adds
\* speed * delta * 0.1, a non-negative amount, and only resetGame lowers score.
ScoreNeverDecreases ==
    [][/\ score' < score => ev'.op \in {"resetGame", "restart"}
       /\ (ev'.op = "animate" /\ ev'.ran) =>
             /\ score' = score + currentSpeed' * pending
             /\ currentSpeed' * pending >= 0]_vars

\* A tick with a positive delta has just added to a score that was already
\* positive
ScoreGrew ==
    /\ ev.op = "animate" /\ ev.ran /\ ev.delta > 0
    /\ score > currentSpeed * ev.delta

\* C19: a pause followed by a resume (by the pause button, the Escape key or
\* the restart button while it reads RESUME) preserves score, lane, obstacle
\* list, debris list and cursor: the step that resumes changes none of them.
ResumePreservesRun ==
    [][(isPaused /\ ~isPaused' /\ ev'.op \in {"pause", "restart"}) =>
          UNCHANGED <<score, currentLane, obstacles, debrisParticles,
                      lastObstacleZ>>]_vars

NoStaleJumpTiming ==
    (ev.ran /\ isJumping) =>
        /\ jumpStartTime <= elapsedTime
        /\ camY >= PLAYER_RUN_HEIGHT

\* C22: after every tick no listed obstacle has z greater than
\* OBSTACLE_CULL_Z; a tick removes exactly the obstacles its transport step
\* carried past the threshold and keeps those at or before it; and in a run
\* that keeps ticking (it has not ended) every listed obstacle is eventually
\* removed from the list.
ObstaclesCulledPastThreshold ==
    /\ [](\A j \in 1..Len(obstacles) : obstacles[j].z <= OBSTACLE_CULL_Z)
    /\ [][(ev'.op = "animate" /\ ev'.ran) =>
             \A j \in 1..Len(obstacles) :
                 (obstacles[j].z + currentSpeed' * ev'.delta <= OBSTACLE_CULL_Z)
                   <=> (\E k \in 1..Len(obstacles') : obstacles'[k].id = obstacles[j].id)]_vars
    /\ \A id \in 1..MaxObstacles :
           (\E j \in 1..Len(obstacles) : obstacles[j].id = id)
             ~> (~(\E j \in 1..Len(obstacles) : obstacles[j].id = id) \/ isGameOver)

\* A tick has carried the whole group past the threshold and removed it from
\* the list, in a run that has not ended
GroupCulled ==
    /\ ev.op = "animate" /\ ev.ran /\ ev.delta > 0
    /\ created > 0 /\ obstacles = <<>>
    /\ lastObstacleZ > OBSTACLE_CULL_Z
    /\ ~isGameOver

====
